---- MODULE Spec2Model ----
(***************************************************************************)
(* Model of the SEP-001 Compact decoder, src/src/decoders/compact.ts.      *)
(*                                                                         *)
(* createCompact(node) returns an async function decode(cid).  One call    *)
(* of decode is a chain of continuations separated by awaits:              *)
(*   line 31   await fetch(cid)            (node.block.get of the root)    *)
(*   line 32   await jose.compactVerify    (embedded-key verification)     *)
(*   35-44     TextDecoder, JSON.parse, presence check, CID.parse(s)       *)
(*   line 44   await fetch(s), JSON.parse                                  *)
(*   line 45   await fetch(d), JSON.parse                                  *)
(*   line 46   await fetch(t), JSON.parse                                  *)
(*   48-54     assemble {header, payload}                                  *)
(* Each action below is one such continuation, run to its next await,      *)
(* return or throw.  The storage node and jose are outside the repository: *)
(* the node answers a request with the block it holds, with a not-found    *)
(* error, with a transport error, or never; compactVerify accepts exactly  *)
(* the tokens whose signature matches header and payload under the key     *)
(* embedded in the header.                                                 *)
(***************************************************************************)
EXTENDS Integers, Sequences, FiniteSets, TLC

\* Number of decode calls running on one decoder (bound of the model).
NumCalls == 1

Calls == 1 .. NumCalls

\* The three claims of a SEP-001 payload, in the order of lines 37 and 44-46.
ClaimOrder == <<"s", "d", "t">>

ClaimFields == {"s", "d", "t"}

------------------------------------------------------------------------------
\* Values

\* No text yet (texts and tokens are tuples).
None == <<"none">>

\* No value yet (JSON values, headers, results and failures are records).
NoValue == [type |-> "none"]

\* CID strings that CID.parse accepts: the root and three claim documents.
ClaimCidStrings == {"Qs", "Qd", "Qt"}

CidStrings == {"Qroot"} \cup ClaimCidStrings

\* A CID object, as opposed to the string it is parsed from.
CidOf(str) == <<"cid", str>>

RootCid == CidOf("Qroot")

\* What a field of the parsed payload may hold: the key is absent (property
\* access gives undefined), JSON null, a string that is no CID, a CID string.
FieldValues == {"undefined", "null", "not-a-cid"} \cup ClaimCidStrings

\* JSON values.  A payload is any JSON value; the claim documents are objects.
JsonNull == [type |-> "null"]

JsonNumber == [type |-> "number"]

JsonObject(s, d, t) == [type |-> "object", s |-> s, d |-> d, t |-> t]

DocOf(str) == [type |-> "doc", of |-> str]

PayloadValues ==
  {JsonNull, JsonNumber}
    \cup {JsonObject(s, d, t) : s \in FieldValues, d \in FieldValues, t \in FieldValues}

\* Text: the serialisation of a JSON value, or text that is no JSON.
JsonText(v) == <<"json", v>>

Garbage == <<"garbage">>

\* Bytes of a token payload: the UTF-8 encoding of a text, or bytes that are
\* no valid UTF-8.  The latter are told by the text a decoder that replaces
\* each invalid sequence by U+FFFD makes of them: no JSON, or JSON (the
\* invalid bytes sat inside a string of the JSON text).
Utf8(text) == <<"utf8", text>>

BadUtf8(text) == <<"badutf8", text>>

PayloadBytes ==
  {Utf8(Garbage), BadUtf8(Garbage),
   BadUtf8(JsonText(JsonObject("Qs", "Qd", "Qt"))),
   BadUtf8(JsonText(JsonObject("not-a-cid", "Qd", "Qt")))}
    \cup {Utf8(JsonText(v)) : v \in PayloadValues}

\* Protected headers.  The verification key travels in the header (jwk).
Headers == {[alg |-> "ES256", jwk |-> "K1"], [alg |-> "ES256", jwk |-> "K2"]}

BadKeyHeader == [alg |-> "ES256", jwk |-> "malformed"]

\* The signature made with the key of hdr over hdr and body.
SignatureOf(hdr, body) == <<"sig", hdr.jwk, hdr, body>>

\* A compact token: three segments.
Token(hdr, body, sig) == <<"jws", hdr, body, sig>>

Sign(hdr, body) == Token(hdr, body, SignatureOf(hdr, body))

SignedTokens == {Sign(h, b) : h \in Headers, b \in PayloadBytes}

CanonicalBody == Utf8(JsonText(JsonObject("Qs", "Qd", "Qt")))

\* Tokens altered after signing (header or signature), a token whose embedded
\* key is malformed, and text that is no token at all.
TamperedTokens ==
  {Token([alg |-> "ES256", jwk |-> "K2"], CanonicalBody,
         SignatureOf([alg |-> "ES256", jwk |-> "K1"], CanonicalBody)),
   Token([alg |-> "ES256", jwk |-> "K1"], CanonicalBody,
         SignatureOf([alg |-> "ES256", jwk |-> "K1"], Utf8(Garbage))),
   Token([alg |-> "ES256", jwk |-> "K1"], Utf8(Garbage),
         SignatureOf([alg |-> "ES256", jwk |-> "K1"], CanonicalBody)),
   Token(BadKeyHeader, CanonicalBody, SignatureOf(BadKeyHeader, CanonicalBody))}

RootTexts == SignedTokens \cup TamperedTokens \cup {Garbage}

\* A block of the storage node holding a text.
Block(text) == <<"block", text>>

Absent == <<"absent">>

------------------------------------------------------------------------------
\* The functions decode calls

\* Line 20: token.toString(), the text a block holds.
toString(block) == block[2]

\* Lines 19-20: what node.block.get can answer for cid.  The node holds the
\* block or not; any request may also fail in transport.
NotFoundError == [kind |-> "NotFound", names |-> {}]

StorageError == [kind |-> "StorageError", names |-> {}]

\* fetch that resolves with empty text when the node holds no block.
fetch_AbsentAsEmptyText(st, cid) ==
  IF (cid \notin DOMAIN st) \/ st[cid] = Absent THEN [ok |-> TRUE, value |-> Garbage]
  ELSE [ok |-> TRUE, value |-> toString(st[cid])]

fetch(st, cid) ==
  IF (cid \notin DOMAIN st) \/ st[cid] = Absent THEN [ok |-> FALSE, error |-> NotFoundError]
  ELSE [ok |-> TRUE, value |-> toString(st[cid])]

\* Line 32: jose.compactVerify(rawMetadata, jose.EmbeddedJWK).  Throws on text
\* that is no three-segment token, on a malformed embedded key and on a
\* signature that does not match header and payload under the embedded key.
JWSError == [kind |-> "SignatureVerification", names |-> {}]

\* compactVerify without the comparison of the signature.
compactVerify_NoSignatureCheck(raw) ==
  IF raw[1] # "jws" THEN [ok |-> FALSE, error |-> JWSError]
  ELSE IF raw[2].jwk = "malformed" THEN [ok |-> FALSE, error |-> JWSError]
  ELSE [ok |-> TRUE, value |-> [protectedHeader |-> raw[2], payload |-> raw[3]]]

\* compactVerify that checks the signature against the signature's own key
\* claim only, whatever header and payload it comes with.
compactVerify_KeyOnly(raw) ==
  IF raw[1] # "jws" THEN [ok |-> FALSE, error |-> JWSError]
  ELSE IF raw[4][2] # raw[2].jwk THEN [ok |-> FALSE, error |-> JWSError]
  ELSE [ok |-> TRUE, value |-> [protectedHeader |-> raw[2], payload |-> raw[3]]]

\* compactVerify without the check of the embedded key.
compactVerify_NoKeyCheck(raw) ==
  IF raw[1] # "jws" THEN [ok |-> FALSE, error |-> JWSError]
  ELSE IF raw[4] # SignatureOf(raw[2], raw[3]) THEN [ok |-> FALSE, error |-> JWSError]
  ELSE [ok |-> TRUE, value |-> [protectedHeader |-> raw[2], payload |-> raw[3]]]

compactVerify(raw) ==
  IF raw[1] # "jws" THEN [ok |-> FALSE, error |-> JWSError]
  ELSE IF raw[2].jwk = "malformed" THEN [ok |-> FALSE, error |-> JWSError]
  ELSE IF raw[4] # SignatureOf(raw[2], raw[3]) THEN [ok |-> FALSE, error |-> JWSError]
  ELSE [ok |-> TRUE, value |-> [protectedHeader |-> raw[2], payload |-> raw[3]]]

\* Line 35: new TextDecoder().decode(bytes).  The default decoder (fatal:
\* false) never throws: it replaces invalid UTF-8 by U+FFFD and returns text.
TextDecode(bytes) == bytes[2]

\* Lines 36, 44-46: JSON.parse(text) throws a SyntaxError on text that is no JSON.
SyntaxError == [kind |-> "SyntaxError", names |-> {}]

JSONparse(text) ==
  IF text[1] = "json" THEN [ok |-> TRUE, value |-> text[2]]
  ELSE [ok |-> FALSE, error |-> SyntaxError]

\* Lines 44-46: what decode throws when JSON.parse throws on the bytes of
\* claim f: the SyntaxError as it is, not caught, nothing added to it.
ClaimParseError_NamingClaim(f, parsed) == [kind |-> "ClaimFormat", names |-> {f}]

ClaimParseError(f, parsed) == parsed.error

\* Line 37: rawPayload?.f.  Undefined for null, for a value that is no object
\* and for an object without the key.
Field(v, f) == IF v.type = "object" THEN v[f] ELSE "undefined"

ClaimsOf(v) == [f \in ClaimFields |-> Field(v, f)]

\* Line 40: claims.every((c) => c !== undefined).
\* The presence check with some() in place of every().
Present_Some(claims) == \E f \in ClaimFields : claims[f] # "undefined"

Present(claims) == \A f \in ClaimFields : claims[f] # "undefined"

\* Line 41: the error thrown when a claim is undefined.  Its message is fixed,
\* 'The claims s, t and d are not present in payload.', whichever is missing.
\* The error of line 41 naming the claims that are undefined.
MissingClaimsError_NamingMissing(claims) ==
  [kind |-> "InvalidStandardPayload",
   names |-> {f \in ClaimFields : claims[f] = "undefined"}]

MissingClaimsError(claims) ==
  [kind |-> "InvalidStandardPayload", names |-> {"s", "t", "d"}]

\* Lines 44-46: CID.parse(str) throws on what is no CID string.
CIDParseError == [kind |-> "CIDParse", names |-> {}]

\* CID.parse that wraps any string without validating it.
CIDparse_NoValidation(str) == [ok |-> TRUE, value |-> CidOf(str)]

CIDparse(str) ==
  IF str \in CidStrings THEN [ok |-> TRUE, value |-> CidOf(str)]
  ELSE [ok |-> FALSE, error |-> CIDParseError]

\* Lines 44-46: the claims whose fetch is issued once the claims in resolved
\* are fetched and parsed: each line awaits before the next line starts, so
\* the next claim of the order s, d, t and no other.
\* The three fetches issued together after the presence check (fan-out).
NextToIssue_AllAtOnce(resolved) == IF resolved = {} THEN ClaimFields ELSE {}

\* The claims dereferenced in the order t, d, s.
NextToIssue_Reversed(resolved) ==
  IF "t" \notin resolved THEN {"t"}
  ELSE IF "d" \notin resolved THEN {"d"}
  ELSE IF "s" \notin resolved THEN {"s"}
  ELSE {}

\* No claim fetch issued: the call awaits a promise nothing settles.
NextToIssue_None(resolved) == {}

NextToIssue(resolved) ==
  IF "s" \notin resolved THEN {"s"}
  ELSE IF "d" \notin resolved THEN {"d"}
  ELSE IF "t" \notin resolved THEN {"t"}
  ELSE {}

\* Lines 48-54: the result.
\* The result with d and t swapped.
Assemble_Swapped(verified, docs) ==
  [header |-> verified.protectedHeader,
   payload |-> [s |-> docs["s"], d |-> docs["t"], t |-> docs["d"]]]

Assemble(verified, docs) ==
  [header |-> verified.protectedHeader,
   payload |-> [s |-> docs["s"], d |-> docs["d"], t |-> docs["t"]]]

------------------------------------------------------------------------------
\* State

VARIABLES
  store,             \* the storage node: CID -> block, or Absent
  pc,                \* per call: where the call is
  arg,               \* per call: the cid argument of decode
  pending,           \* per call: node.block.get requests not yet answered
  getLog,            \* per call: the requests made to node.block.get, in order
  rawMetadata,       \* per call: line 31
  verifiedMetadata,  \* per call: line 32
  rawPayload,        \* per call: line 36
  docs,              \* per call: s, d, t of lines 44-46
  result,            \* per call: the value the promise resolves with
  failure            \* per call: the error the promise rejects with

vars ==
  <<store, pc, arg, pending, getLog, rawMetadata, verifiedMetadata, rawPayload,
    docs, result, failure>>

\* A request to node.block.get: what it is for ("root" or a claim) and the CID.
Request(role, cid) == [role |-> role, cid |-> cid]

\* The documents the claim CIDs address.  Storage is content-addressed: a CID
\* always addresses the same bytes, which the node holds or not.  The bytes of
\* a claim CID are a JSON document or no JSON.
ClaimBlock(str, held) ==
  IF held = "json" THEN Block(JsonText(DocOf(str)))
  ELSE IF held = "garbage" THEN Block(Garbage)
  ELSE Absent

RootBlocks == {Absent} \cup {Block(x) : x \in RootTexts}

MakeStore(root, held) ==
  [cid \in {CidOf(q) : q \in CidStrings} |->
     IF cid = RootCid THEN root ELSE ClaimBlock(cid[2], held[cid[2]])]

Stores ==
  {MakeStore(root, held) :
     root \in RootBlocks, held \in [ClaimCidStrings -> {"absent", "json", "garbage"}]}

Init ==
  /\ store \in Stores
  /\ pc = [c \in Calls |-> "idle"]
  /\ arg = [c \in Calls |-> RootCid]
  /\ pending = [c \in Calls |-> {}]
  /\ getLog = [c \in Calls |-> <<>>]
  /\ rawMetadata = [c \in Calls |-> None]
  /\ verifiedMetadata = [c \in Calls |-> NoValue]
  /\ rawPayload = [c \in Calls |-> NoValue]
  /\ docs = [c \in Calls |-> [f \in ClaimFields |-> NoValue]]
  /\ result = [c \in Calls |-> NoValue]
  /\ failure = [c \in Calls |-> NoValue]

------------------------------------------------------------------------------
\* Steps of a call

\* The promise of call c rejects with err.  Requests still unanswered stay
\* with the node; their answers are dropped.
Throw(c, err) ==
  /\ pc' = [pc EXCEPT ![c] = "failed"]
  /\ failure' = [failure EXCEPT ![c] = err]

\* The claims of fs in the order s, d, t.
InOrder(fs) == SelectSeq(ClaimOrder, LAMBDA f : f \in fs)

RequestsFor(v, fs) ==
  [i \in 1 .. Len(InOrder(fs)) |->
     Request(InOrder(fs)[i], CIDparse(Field(v, InOrder(fs)[i])).value)]

\* Lines 44-46, from the point where the claims in resolved are fetched and
\* parsed: parse the CID of each claim to issue, and call node.block.get.
\* The first CID.parse that throws ends the call.
Dereference(c, v, resolved, stillPending) ==
  LET fs == NextToIssue(resolved)
      bad == {f \in fs : ~CIDparse(Field(v, f)).ok}
  IN IF bad # {}
     THEN /\ Throw(c, CIDparse(Field(v, InOrder(bad)[1])).error)
          /\ pending' = [pending EXCEPT ![c] = stillPending]
          /\ UNCHANGED getLog
     ELSE /\ pc' = [pc EXCEPT ![c] = "claims"]
          /\ pending' = [pending EXCEPT ![c] =
                           stillPending \cup {RequestsFor(v, fs)[i] : i \in 1 .. Len(InOrder(fs))}]
          /\ getLog' = [getLog EXCEPT ![c] = @ \o RequestsFor(v, fs)]
          /\ UNCHANGED failure

\* Line 31, up to the await: decode(cid) calls fetch(cid).
\* A decoder that keeps the result of a finished call and answers the next
\* call from it, without asking the node.
Decode_Cached(c) ==
  /\ pc[c] = "idle"
  /\ IF \E x \in DOMAIN pc : pc[x] = "done"
     THEN /\ pc' = [pc EXCEPT ![c] = "done"]
          /\ result' = [result EXCEPT ![c] = result[CHOOSE x \in DOMAIN pc : pc[x] = "done"]]
          /\ UNCHANGED <<pending, getLog>>
     ELSE /\ pc' = [pc EXCEPT ![c] = "fetchRoot"]
          /\ pending' = [pending EXCEPT ![c] = {Request("root", arg[c])}]
          /\ getLog' = [getLog EXCEPT ![c] = Append(@, Request("root", arg[c]))]
          /\ UNCHANGED result
  /\ UNCHANGED <<store, arg, rawMetadata, verifiedMetadata, rawPayload, docs, failure>>

Decode(c) ==
  /\ pc[c] = "idle"
  /\ pc' = [pc EXCEPT ![c] = "fetchRoot"]
  /\ pending' = [pending EXCEPT ![c] = {Request("root", arg[c])}]
  /\ getLog' = [getLog EXCEPT ![c] = Append(@, Request("root", arg[c]))]
  /\ UNCHANGED <<store, arg, rawMetadata, verifiedMetadata, rawPayload, docs, result, failure>>

\* Lines 19-20, 31-32: the node answers the root request with a block;
\* decode calls compactVerify.
RootFetchReturns(c) ==
  /\ pc[c] = "fetchRoot"
  /\ \E r \in pending[c] :
       /\ r.role = "root"
       /\ fetch(store, r.cid).ok
       /\ pending' = [pending EXCEPT ![c] = @ \ {r}]
       /\ rawMetadata' = [rawMetadata EXCEPT ![c] = fetch(store, r.cid).value]
  /\ pc' = [pc EXCEPT ![c] = "verify"]
  /\ UNCHANGED <<store, arg, getLog, verifiedMetadata, rawPayload, docs, result, failure>>

\* Lines 19, 31: node.block.get rejects (not found, or a transport failure);
\* the error is not caught.
RootFetchFails(c) ==
  /\ pc[c] = "fetchRoot"
  /\ \E r \in pending[c] :
       /\ r.role = "root"
       /\ pending' = [pending EXCEPT ![c] = @ \ {r}]
       /\ \E err \in {StorageError} \cup
                      (IF fetch(store, r.cid).ok THEN {} ELSE {fetch(store, r.cid).error}) :
            Throw(c, err)
  /\ UNCHANGED <<store, arg, getLog, rawMetadata, verifiedMetadata, rawPayload, docs, result>>

\* Line 32: compactVerify rejects; the error is not caught.
VerifyFails(c) ==
  /\ pc[c] = "verify"
  /\ ~compactVerify(rawMetadata[c]).ok
  /\ Throw(c, compactVerify(rawMetadata[c]).error)
  /\ UNCHANGED <<store, arg, pending, getLog, rawMetadata, verifiedMetadata, rawPayload,
                 docs, result>>

\* Lines 32-44: compactVerify resolves; the payload is decoded and parsed, the
\* presence of the claims checked, and the first claim fetch issued.
VerifyReturns(c) ==
  /\ pc[c] = "verify"
  /\ compactVerify(rawMetadata[c]).ok
  /\ LET verified == compactVerify(rawMetadata[c]).value
         parsed == JSONparse(TextDecode(verified.payload))
     IN /\ verifiedMetadata' = [verifiedMetadata EXCEPT ![c] = verified]
        /\ IF ~parsed.ok
           THEN /\ Throw(c, parsed.error)
                /\ UNCHANGED <<rawPayload, pending, getLog>>
           ELSE /\ rawPayload' = [rawPayload EXCEPT ![c] = parsed.value]
                /\ IF ~Present(ClaimsOf(parsed.value))
                   THEN /\ Throw(c, MissingClaimsError(ClaimsOf(parsed.value)))
                        /\ UNCHANGED <<pending, getLog>>
                   ELSE Dereference(c, parsed.value, {}, pending[c])
  /\ UNCHANGED <<store, arg, rawMetadata, docs, result>>

\* The claims of call c that are fetched and parsed.
Resolved(dc) == {f \in ClaimFields : dc[f] # NoValue}

\* Lines 44-54: the node answers a claim request with a block; the text is
\* parsed and kept, and then the next claim is dereferenced or, after the
\* last one, the result assembled and returned.
ClaimFetchReturns(c, f) ==
  /\ pc[c] = "claims"
  /\ \E r \in pending[c] :
       /\ r.role = f
       /\ fetch(store, r.cid).ok
       /\ LET parsed == JSONparse(fetch(store, r.cid).value)
              dc == [docs[c] EXCEPT ![r.role] = parsed.value]
          IN IF ~parsed.ok
             THEN /\ Throw(c, ClaimParseError(r.role, parsed))
                  /\ pending' = [pending EXCEPT ![c] = @ \ {r}]
                  /\ UNCHANGED <<docs, getLog, result>>
             ELSE /\ docs' = [docs EXCEPT ![c] = dc]
                  /\ IF Resolved(dc) = ClaimFields
                     THEN /\ result' = [result EXCEPT ![c] = Assemble(verifiedMetadata[c], dc)]
                          /\ pc' = [pc EXCEPT ![c] = "done"]
                          /\ pending' = [pending EXCEPT ![c] = @ \ {r}]
                          /\ UNCHANGED <<getLog, failure>>
                     ELSE /\ Dereference(c, rawPayload[c], Resolved(dc), pending[c] \ {r})
                          /\ UNCHANGED result
  /\ UNCHANGED <<store, arg, rawMetadata, verifiedMetadata, rawPayload>>

\* A rejected claim fetch that is tried again instead of ending the call.
ClaimFetchFails_Retry(c, f) ==
  /\ pc[c] = "claims"
  /\ \E r \in pending[c] :
       /\ r.role = f
       /\ getLog' = [getLog EXCEPT ![c] = Append(@, r)]
  /\ UNCHANGED <<store, pc, arg, pending, rawMetadata, verifiedMetadata, rawPayload, docs,
                 result, failure>>

\* Lines 19, 44-46: node.block.get rejects for a claim; the error is not caught.
ClaimFetchFails(c, f) ==
  /\ pc[c] = "claims"
  /\ \E r \in pending[c] :
       /\ r.role = f
       /\ pending' = [pending EXCEPT ![c] = @ \ {r}]
       /\ \E err \in {StorageError} \cup
                      (IF fetch(store, r.cid).ok THEN {} ELSE {fetch(store, r.cid).error}) :
            Throw(c, err)
  /\ UNCHANGED <<store, arg, getLog, rawMetadata, verifiedMetadata, rawPayload, docs, result>>

Next ==
  \E c \in Calls :
    \/ Decode(c)
    \/ RootFetchReturns(c)
    \/ RootFetchFails(c)
    \/ VerifyFails(c)
    \/ VerifyReturns(c)
    \/ \E f \in ClaimFields : ClaimFetchReturns(c, f)
    \/ \E f \in ClaimFields : ClaimFetchFails(c, f)

Spec == Init /\ [][Next]_vars

\* The same program with a node that answers every request in the end, except
\* that a request for claim s may stay unanswered for ever.  The steps of
\* decode itself (promise continuations) always run.
Fairness ==
  \A c \in Calls :
    /\ WF_vars(Decode(c))
    /\ WF_vars(RootFetchReturns(c) \/ RootFetchFails(c))
    /\ WF_vars(VerifyFails(c) \/ VerifyReturns(c))
    /\ \A f \in {"d", "t"} : WF_vars(ClaimFetchReturns(c, f) \/ ClaimFetchFails(c, f))

FairSpec == Spec /\ Fairness

\* The same program with a node that answers every request in the end, by a
\* block or by an error, and a verification that returns or throws.
AnswersAll ==
  \A c \in Calls :
    /\ WF_vars(Decode(c))
    /\ WF_vars(RootFetchReturns(c) \/ RootFetchFails(c))
    /\ WF_vars(VerifyFails(c) \/ VerifyReturns(c))
    /\ \A f \in ClaimFields : WF_vars(ClaimFetchReturns(c, f) \/ ClaimFetchFails(c, f))

LiveSpec == Spec /\ AnswersAll

\* One decoder used for one call more, so that two calls can be compared
\* where Calls has one: the calls run interleaved, in any order, on one node.
PairCalls == 1 .. NumCalls + 1

InitPair ==
  /\ store \in Stores
  /\ pc = [c \in PairCalls |-> "idle"]
  /\ arg = [c \in PairCalls |-> RootCid]
  /\ pending = [c \in PairCalls |-> {}]
  /\ getLog = [c \in PairCalls |-> <<>>]
  /\ rawMetadata = [c \in PairCalls |-> None]
  /\ verifiedMetadata = [c \in PairCalls |-> NoValue]
  /\ rawPayload = [c \in PairCalls |-> NoValue]
  /\ docs = [c \in PairCalls |-> [f \in ClaimFields |-> NoValue]]
  /\ result = [c \in PairCalls |-> NoValue]
  /\ failure = [c \in PairCalls |-> NoValue]

NextPair ==
  \E c \in PairCalls :
    \/ Decode(c)
    \/ RootFetchReturns(c)
    \/ RootFetchFails(c)
    \/ VerifyFails(c)
    \/ VerifyReturns(c)
    \/ \E f \in ClaimFields : ClaimFetchReturns(c, f)
    \/ \E f \in ClaimFields : ClaimFetchFails(c, f)

PairSpec == InitPair /\ [][NextPair]_vars

\* The node loses a block (unpinned, collected) while no call is running.
NodeDropsBlock ==
  /\ \A c \in DOMAIN pc : pc[c] \in {"idle", "done", "failed"}
  /\ \E cid \in DOMAIN store :
       /\ store[cid] # Absent
       /\ store' = [store EXCEPT ![cid] = Absent]
  /\ UNCHANGED <<pc, arg, pending, getLog, rawMetadata, verifiedMetadata, rawPayload,
                 docs, result, failure>>

NextReuse == NextPair \/ NodeDropsBlock

ReuseSpec == InitPair /\ [][NextReuse]_vars

------------------------------------------------------------------------------
\* Properties

\* The text the node holds for the root CID (None when it holds nothing).
RootText == IF store[RootCid] = Absent THEN None ELSE store[RootCid][2]

\* The root text is a token signed, and not altered since, with a well-formed
\* embedded key.
Authentic(raw) == raw \in SignedTokens

\* The JSON value the text of a token's payload bytes holds, NoValue when it
\* holds none.
PayloadOf(raw) ==
  IF raw[1] = "jws" /\ raw[3][2][1] = "json" THEN raw[3][2][2] ELSE NoValue

\* The claims missing from a JSON value.
Missing(v) == {f \in ClaimFields : v.type # "object" \/ v[f] = "undefined"}

\* The claims for which call c made a request to the node.
Requested(c) == {getLog[c][i].role : i \in 1 .. Len(getLog[c])} \ {"root"}

\* The call has ended: its promise is settled.
Ended(c) == pc[c] \in {"done", "failed"}

\* C1: decode returns a result only after the verification of the root token
\* succeeded, s, d and t were all found in the verified payload and the fetch
\* and the JSON parse of each claim succeeded; otherwise there is no result,
\* partial or not, and a call that fails carries an error and no result.
C1_AllOrNothing ==
  \A c \in Calls :
    /\ result[c] # NoValue =>
         /\ pc[c] = "done"
         /\ failure[c] = NoValue
         /\ rawMetadata[c] = RootText
         /\ Authentic(rawMetadata[c])
         /\ verifiedMetadata[c] # NoValue
         /\ rawPayload[c] = PayloadOf(rawMetadata[c])
         /\ Missing(rawPayload[c]) = {}
         /\ \A f \in ClaimFields :
              /\ rawPayload[c][f] \in ClaimCidStrings
              /\ store[CidOf(rawPayload[c][f])] = Block(JsonText(docs[c][f]))
              /\ result[c].payload[f] # NoValue
    /\ pc[c] = "done" => result[c] # NoValue
    /\ pc[c] = "failed" => failure[c] # NoValue /\ result[c] = NoValue

C1_Witness ==
  \E c \in Calls : pc[c] = "done" /\ result[c] # NoValue

\* C2: when the verified payload lacks any of s, d, t, decode fails with the
\* missing-claim error and the node has been called once, for the root CID,
\* and never for a claim, also when the other two claims are valid.
C2_MissingClaimFailsBeforeFetch ==
  \A c \in Calls :
    (rawPayload[c] # NoValue /\ Missing(rawPayload[c]) # {}) =>
      /\ pc[c] = "failed"
      /\ failure[c].kind = "InvalidStandardPayload"
      /\ getLog[c] = <<Request("root", RootCid)>>
      /\ pending[c] = {}
      /\ result[c] = NoValue

C2_Witness ==
  \E c \in Calls :
    /\ pc[c] = "failed"
    /\ rawPayload[c] = JsonObject("Qs", "undefined", "Qt")
    /\ store[CidOf("Qs")] # Absent
    /\ store[CidOf("Qt")] # Absent
    /\ Len(getLog[c]) = 1

\* C3: whenever a claim fetch has been issued, the root fetch was issued
\* first and has completed, and the verification of the root token succeeded.
C3_ClaimFetchAfterVerify ==
  \A c \in Calls :
    Requested(c) # {} =>
      /\ getLog[c][1] = Request("root", arg[c])
      /\ \A i \in 2 .. Len(getLog[c]) : getLog[c][i].role # "root"
      /\ \A r \in pending[c] : r.role # "root"
      /\ rawMetadata[c] = RootText
      /\ Authentic(rawMetadata[c])
      /\ verifiedMetadata[c] =
           [protectedHeader |-> rawMetadata[c][2], payload |-> rawMetadata[c][3]]

C3_Witness ==
  \E c \in Calls : pc[c] = "claims" /\ \E r \in pending[c] : r.role = "s"

\* C4: when the root text is not an authentic token (altered signature or
\* header, malformed token, malformed key), decode fails with the signature
\* error: no result, the payload bytes never parsed, no claim fetch issued.
C4_FailClosed ==
  \A c \in Calls :
    (rawMetadata[c] # None /\ ~Authentic(rawMetadata[c])) =>
      /\ pc[c] \in {"verify", "failed"}
      /\ pc[c] = "failed" => failure[c] = JWSError
      /\ verifiedMetadata[c] = NoValue
      /\ rawPayload[c] = NoValue
      /\ result[c] = NoValue
      /\ Requested(c) = {}
      /\ Len(getLog[c]) = 1

C4_Witness ==
  \E c \in Calls :
    /\ pc[c] = "failed"
    /\ failure[c] = JWSError
    /\ rawMetadata[c] = Token(BadKeyHeader, CanonicalBody, SignatureOf(BadKeyHeader, CanonicalBody))

\* The position of a claim in the order s, d, t.
Pos(f) == CHOOSE i \in 1 .. 3 : ClaimOrder[i] = f

\* The claims whose request was answered without a document to keep: the
\* fetch was rejected, or the bytes were no JSON.
Unresolved(c) ==
  {f \in Requested(c) : docs[c][f] = NoValue /\ \A r \in pending[c] : r.role # f}

\* The node does not hold the content of the CID in claim f of the payload.
ContentAbsent(c, f) ==
  /\ rawPayload[c][f] \in ClaimCidStrings
  /\ store[CidOf(rawPayload[c][f])] = Absent

\* C5 as stated: once the claims are being dereferenced and the fetch of d or
\* of t cannot succeed (the node does not hold the content, while it holds that
\* of s), decode fails, even if the fetch of another claim, here s, never
\* returns.
C5_FailsWithoutWaiting ==
  \A c \in Calls :
    [](((pc[c] = "claims") /\ ~ContentAbsent(c, "s")
          /\ (\E f \in {"d", "t"} : ContentAbsent(c, f)))
         => <>(pc[c] = "failed"))

\* C5 as amended: a call that failed on a claim fetch failed on exactly one
\* claim; every claim before it in the order s, d, t had been fetched and
\* parsed, no claim after it was ever requested, and nothing is in flight.
C5_FailsAtFirstFailingFetch ==
  \A c \in Calls :
    (pc[c] = "failed" /\ failure[c] \in {NotFoundError, StorageError} /\ Requested(c) # {}) =>
      /\ pending[c] = {}
      /\ Cardinality(Unresolved(c)) = 1
      /\ \A f \in Unresolved(c) : \A g \in ClaimFields :
           /\ Pos(g) < Pos(f) => docs[c][g] # NoValue
           /\ Pos(g) > Pos(f) => g \notin Requested(c)

C5_Witness ==
  \E c \in Calls :
    /\ pc[c] = "failed"
    /\ failure[c] = NotFoundError
    /\ Requested(c) = {"s", "d"}
    /\ ContentAbsent(c, "d")
    /\ ~ContentAbsent(c, "t")

\* C6 as stated: once the presence check has passed and claims are being
\* fetched, the fetches of s, d and t have all been issued.
C6_FanOut ==
  \A c \in Calls : pc[c] = "claims" => Requested(c) = ClaimFields

\* C6 as amended: at most one claim fetch is in flight, and a claim is
\* requested only when every claim before it in the order s, d, t is fetched
\* and parsed.
C6_OneAtATime ==
  \A c \in Calls :
    /\ Cardinality({r \in pending[c] : r.role \in ClaimFields}) <= 1
    /\ \A f \in Requested(c) : \A g \in ClaimFields :
         Pos(g) < Pos(f) => docs[c][g] # NoValue

C6_Witness ==
  \E c \in Calls :
    /\ pc[c] = "claims"
    /\ docs[c]["s"] # NoValue
    /\ \E r \in pending[c] : r.role = "d"
    /\ "t" \notin Requested(c)

\* The claims of the payload of call c that are no CID strings.
Invalid(c) == {f \in ClaimFields : rawPayload[c][f] \notin ClaimCidStrings}

\* The first claim in the order s, d, t that is no CID string.
FirstInvalid(c) == CHOOSE f \in Invalid(c) : \A g \in Invalid(c) : Pos(f) <= Pos(g)

AllPresent(c) == rawPayload[c] # NoValue /\ Missing(rawPayload[c]) = {}

\* C7 as stated: when s, d and t are all present and one of them is no CID,
\* decode fails with the error of the CID parse, whatever the node holds for
\* the other claims (a transport failure of the node set aside).
C7_InvalidCidWhateverStorage ==
  \A c \in Calls :
    (Ended(c) /\ AllPresent(c) /\ Invalid(c) # {}) =>
      /\ pc[c] = "failed"
      /\ failure[c].kind \in {"CIDParse", "StorageError"}

\* C7 as amended: when s, d and t are all present and one of them is no CID,
\* decode fails; it fails with the error thrown by CID.parse (which names no
\* field), the invalid claim and those after it never requested, exactly when
\* every claim before the first invalid one was fetched and parsed; when the
\* fetch or the JSON parse of an earlier claim fails, decode fails with that
\* error instead.
C7_InvalidCidAfterEarlierClaims ==
  \A c \in Calls :
    (Ended(c) /\ AllPresent(c) /\ Invalid(c) # {}) =>
      /\ pc[c] = "failed"
      /\ result[c] = NoValue
      /\ \A g \in ClaimFields : Pos(g) >= Pos(FirstInvalid(c)) => g \notin Requested(c)
      /\ IF \A g \in ClaimFields : Pos(g) < Pos(FirstInvalid(c)) => docs[c][g] # NoValue
         THEN failure[c] = CIDParseError
         ELSE failure[c] \in {NotFoundError, StorageError, SyntaxError}

C7_Witness ==
  \E c \in Calls :
    /\ pc[c] = "failed"
    /\ failure[c] = CIDParseError
    /\ rawPayload[c] = JsonObject("Qs", "not-a-cid", "Qt")
    /\ docs[c]["s"] = DocOf("Qs")

\* C8 as stated: when decode fails because claims are missing, the failure
\* names the claims that are missing, and no others.
C8_NamesMissingClaims ==
  \A c \in Calls :
    (Ended(c) /\ rawPayload[c] # NoValue /\ Missing(rawPayload[c]) # {}) =>
      /\ pc[c] = "failed"
      /\ failure[c].names = Missing(rawPayload[c])

\* C8 as amended: when decode fails because claims are missing, the failure
\* is one fixed error, whose message names all of s, t and d, whichever of
\* them is missing: payloads missing different claims fail alike.
C8_SameErrorWhicheverMissing ==
  \A c \in Calls :
    (Ended(c) /\ rawPayload[c] # NoValue /\ Missing(rawPayload[c]) # {}) =>
      /\ pc[c] = "failed"
      /\ failure[c] = [kind |-> "InvalidStandardPayload", names |-> ClaimFields]

C8_Witness ==
  \E c \in Calls :
    /\ pc[c] = "failed"
    /\ Missing(rawPayload[c]) = {"t"}
    /\ failure[c].names = ClaimFields

\* The root text is an authentic token whose payload holds, in s, d and t,
\* CIDs of JSON documents the node holds.
RoundTripInput ==
  /\ Authentic(RootText)
  /\ PayloadOf(RootText) # NoValue
  /\ Missing(PayloadOf(RootText)) = {}
  /\ \A f \in ClaimFields :
       /\ PayloadOf(RootText)[f] \in ClaimCidStrings
       /\ store[CidOf(PayloadOf(RootText)[f])] =
            Block(JsonText(DocOf(PayloadOf(RootText)[f])))

\* C9: on such an input a call that ends returns the header of the token as
\* it is and, under s, d and t, the documents stored under the CIDs in s, d
\* and t of the payload, unless a request to the node failed in transport.
C9_RoundTrip ==
  \A c \in Calls :
    (Ended(c) /\ RoundTripInput) =>
      \/ pc[c] = "failed" /\ failure[c] = StorageError /\ result[c] = NoValue
      \/ /\ pc[c] = "done"
         /\ DOMAIN result[c] = {"header", "payload"}
         /\ result[c].header = RootText[2]
         /\ DOMAIN result[c].payload = ClaimFields
         /\ \A f \in ClaimFields :
              result[c].payload[f] = DocOf(PayloadOf(RootText)[f])

C9_Witness ==
  \E c \in Calls :
    /\ pc[c] = "done"
    /\ rawPayload[c] = JsonObject("Qs", "Qd", "Qt")
    /\ result[c].header = [alg |-> "ES256", jwk |-> "K2"]
    /\ result[c].payload = [s |-> DocOf("Qs"), d |-> DocOf("Qd"), t |-> DocOf("Qt")]

\* The root text is an authentic token with CIDs in s, d and t; the node
\* lacks the content of claim f and holds JSON documents for the other two.
OneClaimAbsent(f) ==
  /\ Authentic(RootText)
  /\ PayloadOf(RootText) # NoValue
  /\ Missing(PayloadOf(RootText)) = {}
  /\ \A g \in ClaimFields : PayloadOf(RootText)[g] \in ClaimCidStrings
  /\ store[CidOf(PayloadOf(RootText)[f])] = Absent
  /\ \A g \in ClaimFields \ {f} :
       store[CidOf(PayloadOf(RootText)[g])] =
         Block(JsonText(DocOf(PayloadOf(RootText)[g])))

\* C10: when the content of one claim cannot be fetched while the other two
\* are documents the node holds, a call that ends has failed with the error
\* of node.block.get (not found, or a transport failure) and has no result,
\* whichever claim it is and whatever was fetched before.
C10_FetchErrorPropagates ==
  \A c \in Calls : \A f \in ClaimFields :
    (Ended(c) /\ OneClaimAbsent(f)) =>
      /\ pc[c] = "failed"
      /\ result[c] = NoValue
      /\ failure[c] \in {NotFoundError, StorageError}
      /\ failure[c] = NotFoundError => Unresolved(c) = {f}

C10_Witness ==
  \E c \in Calls :
    /\ OneClaimAbsent("t")
    /\ pc[c] = "failed"
    /\ failure[c] = NotFoundError
    /\ docs[c]["s"] # NoValue
    /\ docs[c]["d"] # NoValue

\* The payload bytes of a token are not the UTF-8 encoding of a JSON text.
NotUtf8Json(raw) == raw[3][1] # "utf8" \/ raw[3][2][1] # "json"

\* C11: when the signature verifies and the payload bytes are not valid UTF-8
\* JSON, decode fails with the error of the payload parse, which is neither
\* the signature error nor the missing-claim error, and no claim fetch is
\* issued.
C11_PayloadFormatError ==
  \A c \in Calls :
    (verifiedMetadata[c] # NoValue /\ Authentic(rawMetadata[c])
       /\ NotUtf8Json(rawMetadata[c])) =>
      /\ pc[c] = "failed"
      /\ failure[c] = SyntaxError
      /\ failure[c].kind \notin {JWSError.kind, MissingClaimsError(ClaimsOf(JsonNull)).kind}
      /\ Requested(c) = {}
      /\ result[c] = NoValue

\* The claim of call c whose stored bytes were fetched and were no JSON.
NotJsonClaims(c) ==
  {f \in Unresolved(c) :
     /\ rawPayload[c][f] \in ClaimCidStrings
     /\ store[CidOf(rawPayload[c][f])] = Block(Garbage)
     /\ failure[c] \notin {NotFoundError, StorageError}}

\* C12 as stated: when the bytes fetched for a claim are no JSON, decode fails
\* with an error that identifies that claim and differs from the error of an
\* unparsable root payload.
C12_ClaimFormatErrorNamesClaim ==
  \A c \in Calls : \A f \in ClaimFields :
    (pc[c] = "failed" /\ f \in NotJsonClaims(c)) =>
      /\ failure[c].names = {f}
      /\ failure[c] # JSONparse(TextDecode(Utf8(Garbage))).error

\* C12 as amended: when the bytes fetched for a claim are no JSON, decode
\* fails with the SyntaxError of JSON.parse, which names no claim: the same
\* error as for an unparsable root payload and as for any other claim.
C12_SameSyntaxErrorForAll ==
  \A c \in Calls : \A f \in ClaimFields :
    (pc[c] = "failed" /\ f \in NotJsonClaims(c)) =>
      /\ NotJsonClaims(c) = {f}
      /\ failure[c] = JSONparse(TextDecode(Utf8(Garbage))).error
      /\ failure[c].names = {}
      /\ result[c] = NoValue

C12_Witness ==
  \E c \in Calls :
    /\ pc[c] = "failed"
    /\ NotJsonClaims(c) = {"d"}
    /\ docs[c]["s"] # NoValue
    /\ failure[c] = SyntaxError

\* The roles of the requests call c made, in order.
Roles(c) == [i \in 1 .. Len(getLog[c]) |-> getLog[c][i].role]

\* C14: a call asks the node at most four times, first for the root CID and
\* then at most once for each claim; a call that returned asked exactly four
\* times; a call that failed on a rejected request asked for nothing after
\* it, and a call that has ended asks for nothing more.
C14_NoRetry ==
  /\ [](\A c \in Calls :
         /\ Len(getLog[c]) <= 4
         /\ pc[c] # "idle" => getLog[c][1] = Request("root", arg[c])
         /\ \A i, j \in 1 .. Len(getLog[c]) : i # j => getLog[c][i].role # getLog[c][j].role
         /\ pc[c] = "done" => Roles(c) = <<"root", "s", "d", "t">>
         /\ (pc[c] = "failed" /\ failure[c] \in {NotFoundError, StorageError}) =>
              /\ pending[c] = {}
              /\ IF Roles(c)[Len(getLog[c])] = "root"
                 THEN rawMetadata[c] = None
                 ELSE docs[c][Roles(c)[Len(getLog[c])]] = NoValue
              /\ result[c] = NoValue)
  /\ [][\A c \in Calls : Ended(c) => (getLog[c]' = getLog[c] /\ pc[c]' = pc[c])]_vars

C14_Witness ==
  \E c \in Calls :
    /\ pc[c] = "failed"
    /\ failure[c] = StorageError
    /\ Roles(c) = <<"root", "s", "d">>

\* Dereferencing claim f of the payload of call c cannot succeed, whatever the
\* transport does: the field is no CID string, or the node lacks the content
\* or holds bytes that are no JSON.
CannotResolve(c, f) ==
  \/ rawPayload[c][f] \notin ClaimCidStrings
  \/ store[CidOf(rawPayload[c][f])] \in {Absent, Block(Garbage)}

\* The error dereferencing claim f ends with when the transport does not fail.
ClaimErrorOf(c, f) ==
  IF rawPayload[c][f] \notin ClaimCidStrings THEN CIDParseError
  ELSE IF store[CidOf(rawPayload[c][f])] = Absent THEN NotFoundError
  ELSE SyntaxError

\* C16: the claims are dereferenced in the order s, d, t: the requests for
\* claims are, in order, those of a prefix of s, d, t; all but the last
\* requested claim are fetched and parsed; a call that failed while
\* dereferencing never requested the claims after the failing one, and
\* unless the transport failed its error is that of the first claim in the
\* order s, d, t that cannot be dereferenced.
C16_SequentialOrder ==
  \A c \in Calls :
    /\ \E n \in 0 .. 3 :
         /\ Len(getLog[c]) = (IF pc[c] = "idle" THEN 0 ELSE n + 1)
         /\ \A i \in 1 .. n :
              /\ pc[c] # "idle"
              /\ getLog[c][i + 1] = Request(ClaimOrder[i], CidOf(rawPayload[c][ClaimOrder[i]]))
              /\ i < n => docs[c][ClaimOrder[i]] # NoValue
         /\ \A i \in (n + 1) .. 3 : docs[c][ClaimOrder[i]] = NoValue
         /\ \A r \in pending[c] : r.role \in ClaimFields => (n >= 1 /\ r.role = ClaimOrder[n])
    /\ (pc[c] = "failed" /\ AllPresent(c) /\ failure[c] # StorageError) =>
         \E f \in ClaimFields :
           /\ CannotResolve(c, f)
           /\ \A g \in ClaimFields : Pos(g) < Pos(f) => ~CannotResolve(c, g)
           /\ failure[c] = ClaimErrorOf(c, f)
           /\ \A g \in ClaimFields : Pos(g) > Pos(f) => g \notin Requested(c)

C16_Witness ==
  \E c \in Calls :
    /\ pc[c] = "failed"
    /\ AllPresent(c)
    /\ rawPayload[c]["s"] = "Qs"
    /\ store[CidOf("Qs")] = Block(Garbage)
    /\ CannotResolve(c, "d")
    /\ CannotResolve(c, "t")
    /\ failure[c] = SyntaxError
    /\ Requested(c) = {"s"}

\* C17: when the node answers every request and the verification returns,
\* every call ends, with exactly one outcome, a result or an error; a call
\* that has not ended waits for exactly one answer (of the node or of the
\* verification), and a call that has ended takes no further step.
C17_Terminates ==
  /\ \A c \in Calls : <>Ended(c)
  /\ [](\A c \in Calls :
         /\ Ended(c) <=> (result[c] # NoValue \/ failure[c] # NoValue)
         /\ ~(result[c] # NoValue /\ failure[c] # NoValue)
         /\ pc[c] \in {"fetchRoot", "claims"} => Cardinality(pending[c]) = 1
         /\ pc[c] \in {"idle", "verify", "done", "failed"} => pending[c] = {})
  /\ [][\A c \in Calls :
          Ended(c) => (pc[c]' = pc[c] /\ result[c]' = result[c] /\ failure[c]' = failure[c])]_vars

C17_Witness ==
  \E c \in Calls :
    /\ pc[c] = "done"
    /\ result[c] # NoValue
    /\ failure[c] = NoValue
    /\ Len(getLog[c]) = 4

\* C13: on one node content and one root token, two calls that have ended
\* report the same outcome, in particular the same single error when a claim
\* step fails, in whatever order the node answered their requests (an answer
\* that is a transport failure aside: it is no part of the content).
C13_DeterministicFailure ==
  \A c1 \in DOMAIN pc : \A c2 \in DOMAIN pc :
    (Ended(c1) /\ Ended(c2) /\ failure[c1] # StorageError /\ failure[c2] # StorageError) =>
      /\ pc[c1] = pc[c2]
      /\ failure[c1] = failure[c2]
      /\ result[c1] = result[c2]
      /\ getLog[c1] = getLog[c2]

C13_Witness ==
  \E c1 \in DOMAIN pc : \E c2 \in DOMAIN pc :
    /\ c1 # c2
    /\ pc[c1] = "failed" /\ pc[c2] = "failed"
    /\ rawPayload[c1] = JsonObject("Qs", "Qd", "not-a-cid")
    /\ store[CidOf("Qs")] = Absent
    /\ store[CidOf("Qd")] = Block(Garbage)
    /\ failure[c1] = NotFoundError
    /\ failure[c2] = NotFoundError

\* What belongs to call c.
Locals(c) ==
  <<pc[c], arg[c], pending[c], getLog[c], rawMetadata[c], verifiedMetadata[c],
    rawPayload[c], docs[c], result[c], failure[c]>>

SoloFailed(err, log) == [pc |-> "failed", failure |-> err, result |-> NoValue, log |-> log]

\* The claims from the i-th on, dereferenced one after the other on content st.
RECURSIVE SoloClaims(_, _, _, _, _, _)
SoloClaims(st, verified, v, i, dc, log) ==
  IF i > Len(ClaimOrder)
  THEN [pc |-> "done", failure |-> NoValue, result |-> Assemble(verified, dc), log |-> log]
  ELSE LET f == ClaimOrder[i]
           cid == CIDparse(Field(v, f))
       IN IF ~cid.ok THEN SoloFailed(cid.error, log)
          ELSE LET asked == Append(log, Request(f, cid.value))
                   text == fetch(st, cid.value)
               IN IF ~text.ok THEN SoloFailed(text.error, asked)
                  ELSE LET doc == JSONparse(text.value)
                       IN IF ~doc.ok THEN SoloFailed(doc.error, asked)
                          ELSE SoloClaims(st, verified, v, i + 1,
                                          [dc EXCEPT ![f] = doc.value], asked)

\* The outcome and the requests of decode(cid) run alone, start to end, on a
\* node of content st that answers every request: lines 31-54 read top down.
SoloOutcome(st, cid) ==
  LET asked == <<Request("root", cid)>>
      root == fetch(st, cid)
  IN IF ~root.ok THEN SoloFailed(root.error, asked)
     ELSE LET verified == compactVerify(root.value)
          IN IF ~verified.ok THEN SoloFailed(verified.error, asked)
             ELSE LET parsed == JSONparse(TextDecode(verified.value.payload))
                  IN IF ~parsed.ok THEN SoloFailed(parsed.error, asked)
                     ELSE IF ~Present(ClaimsOf(parsed.value))
                          THEN SoloFailed(MissingClaimsError(ClaimsOf(parsed.value)), asked)
                          ELSE SoloClaims(st, verified.value, parsed.value, 1,
                                          [f \in ClaimFields |-> NoValue], asked)

\* C15: a call that ends (a transport failure aside) ends with the outcome,
\* and after the requests, of a call run alone on the node's content of that
\* time, whatever other calls of the same decoder ran before it or run
\* interleaved with it: it asks the node for the root and the claims itself.
\* No step touches what belongs to two calls, an ended call stays as it
\* is, and decode never writes to the node.
C15_NoStateBetweenCalls ==
  [][/\ \A c \in DOMAIN pc :
          (~Ended(c) /\ Ended(c)' /\ failure'[c] # StorageError) =>
            /\ [pc |-> pc'[c], failure |-> failure'[c], result |-> result'[c],
                log |-> getLog'[c]] = SoloOutcome(store, arg[c])
            /\ store' = store
     /\ \A c1 \in DOMAIN pc : \A c2 \in DOMAIN pc :
          c1 # c2 => (Locals(c1)' = Locals(c1) \/ Locals(c2)' = Locals(c2))
     /\ \A c \in DOMAIN pc : Ended(c) => Locals(c)' = Locals(c)
     /\ store' # store => \A c \in DOMAIN pc : Locals(c)' = Locals(c)]_vars

\* The first call returned a document; the node then lost a block, and the
\* second call of the same root asked again and failed on the missing block.
C15_Witness ==
  \E c1 \in DOMAIN pc : \E c2 \in DOMAIN pc :
    /\ c1 # c2 /\ arg[c1] = arg[c2]
    /\ pc[c1] = "done"
    /\ pc[c2] = "failed" /\ failure[c2] = NotFoundError
    /\ Len(getLog[c2]) >= 2
    /\ getLog[c2][1] = Request("root", arg[c2])
    /\ store[getLog[c2][Len(getLog[c2])].cid] = Absent

====
